---- MODULE Spec2Model ----
(***************************************************************************)
(* A model of the SimSpec desktop harness: the frame sampler               *)
(* (extract_frames.py), the mock inference service, the category           *)
(* classifier, the question generator and the progressive analysis runner  *)
(* (simspec_test_harness.py), and the report generator                     *)
(* (generate_report.py).                                                   *)
(*                                                                         *)
(* Python str values are TLA+ strings; `in`, lower(), split(), endswith()  *)
(* and the ordering used by sorted() are computed character by character.  *)
(* Rational quantities (frame rates, intervals, timestamps, means) are     *)
(* kept as exact fractions of integers.                                    *)
(***************************************************************************)
EXTENDS Integers, Sequences, FiniteSets, TLC

-----------------------------------------------------------------------------
(* Python str primitives *)

\* The printable ASCII characters in code point order: 32 (space) to 95 (_),
\* and 97 (a) to 126 (~). Code point 96 cannot be written in a TLA+ string and
\* occurs in no text of the program.
AsciiLow == " !\"#$%&'()*+,-./0123456789:;<=>?@ABCDEFGHIJKLMNOPQRSTUVWXYZ[\\]^_"
AsciiHigh == "abcdefghijklmnopqrstuvwxyz{|}~"

\* The i-th character of s as a one-character string.
CharAt(s, i) == SubSeq(s, i, i)

\* ord(c) for a printable ASCII character c.
Ord(c) ==
    IF \E i \in 1..Len(AsciiLow) : CharAt(AsciiLow, i) = c
    THEN 31 + (CHOOSE i \in 1..Len(AsciiLow) : CharAt(AsciiLow, i) = c)
    ELSE 96 + (CHOOSE i \in 1..Len(AsciiHigh) : CharAt(AsciiHigh, i) = c)

\* chr(n) for 97 <= n <= 126.
Chr(n) == CharAt(AsciiHigh, n - 96)

\* The characters with code points 65..90.
UpperChars == {CharAt(AsciiLow, n - 31) : n \in 65..90}

\* str.lower() on one character: A-Z (65..90) move up by 32.
LowerChar(c) == IF c \in UpperChars THEN Chr(Ord(c) + 32) ELSE c

\* s.lower() on the characters lo..hi of s, by halves (the recursion stays shallow).
RECURSIVE LowerRange(_, _, _)
LowerRange(s, lo, hi) ==
    IF lo > hi THEN ""
    ELSE IF lo = hi THEN LowerChar(CharAt(s, lo))
    ELSE LET mid == (lo + hi) \div 2
         IN  LowerRange(s, lo, mid) \o LowerRange(s, mid + 1, hi)

\* s.lower()
Lower(s) == LowerRange(s, 1, Len(s))

\* s.find(sub, from): the least index >= from at which sub occurs in s, 0 if none
\* (indices are 1-based here; Python's -1 is 0).
FindFrom(sub, s, from) ==
    LET hits == {i \in from..(Len(s) - Len(sub) + 1) : SubSeq(s, i, i + Len(sub) - 1) = sub}
    IN  IF hits = {} THEN 0 ELSE CHOOSE i \in hits : \A j \in hits : i <= j

\* sub in s
Contains(sub, s) == FindFrom(sub, s, 1) # 0

\* s.endswith(suffix)
EndsWith(s, suffix) ==
    /\ Len(s) >= Len(suffix)
    /\ SubSeq(s, Len(s) - Len(suffix) + 1, Len(s)) = suffix

\* s.strip() for the space character.
RECURSIVE LStrip(_)
LStrip(s) == IF Len(s) > 0 /\ CharAt(s, 1) = " " THEN LStrip(SubSeq(s, 2, Len(s))) ELSE s
RECURSIVE RStrip(_)
RStrip(s) == IF Len(s) > 0 /\ CharAt(s, Len(s)) = " " THEN RStrip(SubSeq(s, 1, Len(s) - 1)) ELSE s
Strip(s) == LStrip(RStrip(s))

\* s.split(sep): the sequence of pieces between successive occurrences of sep.
RECURSIVE Split(_, _)
Split(s, sep) ==
    LET i == FindFrom(sep, s, 1)
    IN  IF i = 0 THEN <<s>>
        ELSE <<SubSeq(s, 1, i - 1)>> \o Split(SubSeq(s, i + Len(sep), Len(s)), sep)

\* a < b for str: lexicographic by code point, a proper prefix is smaller.
RECURSIVE StrLessFrom(_, _, _)
StrLessFrom(a, b, i) ==
    IF i > Len(b) THEN FALSE
    ELSE IF i > Len(a) THEN TRUE
    ELSE IF CharAt(a, i) = CharAt(b, i) THEN StrLessFrom(a, b, i + 1)
    ELSE Ord(CharAt(a, i)) < Ord(CharAt(b, i))

StrLess(a, b) == StrLessFrom(a, b, 1)

\* sorted(seq) for a list of str (insertion into an ascending list; stable).
RECURSIVE InsertSorted(_, _)
InsertSorted(x, seq) ==
    IF seq = <<>> THEN <<x>>
    ELSE IF StrLess(x, Head(seq)) THEN <<x>> \o seq
    ELSE <<Head(seq)>> \o InsertSorted(x, Tail(seq))

RECURSIVE sorted(_)
sorted(seq) == IF seq = <<>> THEN <<>> ELSE InsertSorted(seq[Len(seq)], sorted(SubSeq(seq, 1, Len(seq) - 1)))

\* str(n) for n >= 0.
RECURSIVE IntToStr(_)
IntToStr(n) == IF n < 10 THEN CharAt("0123456789", n + 1) ELSE IntToStr(n \div 10) \o CharAt("0123456789", (n % 10) + 1)

\* f"{n:03d}" for n >= 0.
Pad3(n) == IF n < 10 THEN "00" \o IntToStr(n) ELSE IF n < 100 THEN "0" \o IntToStr(n) ELSE IntToStr(n)

\* The integer nearest to num/den (num >= 0, den > 0), ties to the even one:
\* Python's round() and the rounding of float formatting on an exact value.
RoundHalfEven(num, den) ==
    LET q == num \div den
        r == num % den
    IN  IF 2 * r < den THEN q
        ELSE IF 2 * r > den THEN q + 1
        ELSE IF q % 2 = 0 THEN q ELSE q + 1

\* f"{x:.1f}" for x = num/den >= 0.
Fmt1f(num, den) ==
    LET tenths == RoundHalfEven(10 * num, den)
    IN  IntToStr(tenths \div 10) \o "." \o IntToStr(tenths % 10)

-----------------------------------------------------------------------------
(* Bounds of the model *)

\* Frame rates are multiples of 1/RateDen frames per second, 0..MaxFps of them.
MaxFps == 6
\* Sampling intervals are multiples of 1/RateDen seconds, 1..MaxInterval of them.
MaxInterval == 4
\* The decoded stream of a video holds 0..MaxStream frames.
MaxStream == 6

\* initialize is called at most MaxInits times and analyze_image at most
\* MaxCalls times on the free-standing service object.
MaxInits == 2
MaxCalls == 3
\* A response text given to the classifier is made of at most MaxFragments fragments.
MaxFragments == 2
\* The frames directory holds at most MaxDirFiles files.
MaxDirFiles == 2

\* The resolution of frame rates and intervals. With halves both are exactly
\* representable as floats, so fps * interval and int() of it are exact in the
\* program too, and no timestamp falls on a rounding tie of its label.
RateDen == 2

-----------------------------------------------------------------------------
(* State *)

VARIABLES
    \* extract_frames.py: one call of extract_frames_from_video
    video,              \* [opened, fps, frame_count_prop, stream]: what cv2 reports
    interval_seconds,   \* the interval argument, in 1/RateDen seconds
    s_pc,               \* position in extract_frames_from_video
    frame_interval,     \* the stride
    frame_count,        \* frames read so far
    extracted_count,    \* frames written so far
    extracted_frames,   \* the manifest
    out_dir,            \* the output directory: [exists, files]
    \* simspec_test_harness.py: one MockLeapService object
    initialized,        \* self.initialized
    model_load_time,    \* self.model_load_time, in milliseconds
    ret,                \* what the last analyze_image call returned: <<text, elapsed ms>>
    init_done,          \* initialize calls completed so far
    analyze_calls,      \* analyze_image calls made so far
    \* simspec_test_harness.py: one pass of the runner's loop body over a response
    c_pc,               \* position in the loop body
    response,           \* the response text
    analysis_type,      \* ContextInterpreter.get_analysis_type(response)
    question_data,      \* QuestionGenerator.generate_question(analysis_type)
    analysis_result,    \* the AnalysisStep record assembled from them
    \* simspec_test_harness.py: one call of run_progressive_analysis_test
    frames_dir,         \* the directory extracted_frames: [exists, files]
    results_file,       \* simspec_test_results.json: [exists, writer, data]
    r_pc,               \* position in run_progressive_analysis_test
    frame_files,        \* the sorted list of .jpg names
    frame_idx,          \* index of the frame being analysed (1-based)
    frame_results,      \* the FrameResult being assembled
    results,            \* the FrameResults assembled so far
    \* generate_report.py: one call of analyze_test_results
    g_pc,               \* position in analyze_test_results
    report              \* what the call printed, as a record

samplerVars == <<video, interval_seconds, s_pc, frame_interval, frame_count,
                 extracted_count, extracted_frames, out_dir>>
serviceVars == <<initialized, model_load_time, ret, init_done, analyze_calls>>
stepVars == <<c_pc, response, analysis_type, question_data, analysis_result>>
runnerVars == <<frames_dir, results_file, r_pc, frame_files, frame_idx,
                frame_results, results>>
reportVars == <<g_pc, report>>

vars == <<samplerVars, serviceVars, stepVars, runnerVars, reportVars>>

\* Python's None where a dict is expected.
None == [py_none |-> TRUE]

\* A component that is not running: its fields as constructed, nothing called.
IdleSampler ==
    /\ video = [opened |-> FALSE, fps |-> 0, frame_count_prop |-> 0, stream |-> 0]
    /\ interval_seconds = 3 * RateDen
    /\ s_pc = "idle"
    /\ frame_interval = 0
    /\ frame_count = 0
    /\ extracted_count = 0
    /\ extracted_frames = <<>>
    /\ out_dir = [exists |-> FALSE, files |-> {}]

\* MockLeapService.__init__ (lines 20-22), no call made yet.
IdleService ==
    /\ initialized = FALSE
    /\ model_load_time = 0
    /\ ret = <<>>
    /\ init_done = 0
    /\ analyze_calls = 0

IdleStep ==
    /\ c_pc = "idle"
    /\ response = ""
    /\ analysis_type = ""
    /\ question_data = None
    /\ analysis_result = None

\* simspec_test_results.json when it does not exist.
NoFile == [exists |-> FALSE, writer |-> "nobody", text |-> None]

IdleRunner ==
    /\ frames_dir = [exists |-> FALSE, files |-> {}]
    /\ results_file = NoFile
    /\ r_pc = "idle"
    /\ frame_files = <<>>
    /\ frame_idx = 0
    /\ frame_results = None
    /\ results = <<>>

IdleReport ==
    /\ g_pc = "idle"
    /\ report = None

-----------------------------------------------------------------------------
(* extract_frames.py *)

\* int(fps * interval_seconds) for fps = f/RateDen and interval = i/RateDen.
ComputeStride(f, i) == (f * i) \div (RateDen * RateDen)

\* The off-by-one sampling test: the frame after each multiple's predecessor.
IsSampledShifted(count, stride) == (count + 1) % stride = 0

\* frame_count % frame_interval == 0 (the caller has excluded a zero stride,
\* where Python raises ZeroDivisionError).
IsSampled(count, stride) == count % stride = 0

\* f"frame_{extracted_count:03d}_t{timestamp:.1f}s.jpg", timestamp = count / fps.
FrameFilename(seqno, count, f) ==
    "frame_" \o Pad3(seqno) \o "_t" \o Fmt1f(count * RateDen, f) \o "s.jpg"

\* The state a call of extract_frames_from_video starts in.
InitSampler ==
    /\ video \in [opened : BOOLEAN, fps : 0..MaxFps,
                  frame_count_prop : 0..MaxStream, stream : 0..MaxStream]
    /\ video.frame_count_prop \in {video.stream, video.stream + 1} \cap (0..MaxStream)
    /\ interval_seconds \in 1..MaxInterval
    /\ s_pc = "start"
    /\ frame_interval = 0
    /\ frame_count = 0
    /\ extracted_count = 0
    /\ extracted_frames = <<>>
    /\ out_dir \in [exists : BOOLEAN, files : {{}}]
    /\ IdleService /\ IdleStep /\ IdleRunner /\ IdleReport

\* Lines 21-28: mkdir; the video does not open: print and return [].
OpenFails ==
    /\ s_pc = "start"
    /\ ~video.opened
    /\ out_dir' = [out_dir EXCEPT !.exists = TRUE]
    /\ s_pc' = "returned"
    /\ UNCHANGED <<video, interval_seconds, frame_interval, frame_count,
                   extracted_count, extracted_frames>>
    /\ UNCHANGED <<serviceVars, stepVars, runnerVars, reportVars>>

\* Lines 21-33: the video opens with fps 0: duration = total_frames / fps raises.
OpenZeroFps ==
    /\ s_pc = "start"
    /\ video.opened
    /\ video.fps = 0
    /\ out_dir' = [out_dir EXCEPT !.exists = TRUE]
    /\ s_pc' = "raised"
    /\ UNCHANGED <<video, interval_seconds, frame_interval, frame_count,
                   extracted_count, extracted_frames>>
    /\ UNCHANGED <<serviceVars, stepVars, runnerVars, reportVars>>

\* Lines 21-44: the video opens: properties read, the stride computed.
OpenVideo ==
    /\ s_pc = "start"
    /\ video.opened
    /\ video.fps # 0
    /\ out_dir' = [out_dir EXCEPT !.exists = TRUE]
    /\ frame_interval' = ComputeStride(video.fps, interval_seconds)
    /\ extracted_frames' = <<>>
    /\ frame_count' = 0
    /\ extracted_count' = 0
    /\ s_pc' = "loop"
    /\ UNCHANGED <<video, interval_seconds>>
    /\ UNCHANGED <<serviceVars, stepVars, runnerVars, reportVars>>

\* Lines 47-49, 71-73: cap.read() fails at the end of the stream: return the manifest.
ReadEnds ==
    /\ s_pc = "loop"
    /\ frame_count >= video.stream
    /\ s_pc' = "returned"
    /\ UNCHANGED <<video, interval_seconds, frame_interval, frame_count,
                   extracted_count, extracted_frames, out_dir>>
    /\ UNCHANGED <<serviceVars, stepVars, runnerVars, reportVars>>

\* Line 52 with a zero stride: frame_count % 0 raises ZeroDivisionError.
ReadZeroStride ==
    /\ s_pc = "loop"
    /\ frame_count < video.stream
    /\ frame_interval = 0
    /\ s_pc' = "raised"
    /\ UNCHANGED <<video, interval_seconds, frame_interval, frame_count,
                   extracted_count, extracted_frames, out_dir>>
    /\ UNCHANGED <<serviceVars, stepVars, runnerVars, reportVars>>

\* Lines 47-69: a frame is read and it is a sampled one: written and recorded.
ReadAndExtract ==
    /\ s_pc = "loop"
    /\ frame_count < video.stream
    /\ frame_interval # 0
    /\ IsSampled(frame_count, frame_interval)
    /\ LET filename == FrameFilename(extracted_count, frame_count, video.fps)
       IN  /\ out_dir' = [out_dir EXCEPT !.files = @ \cup {filename}]
           /\ extracted_frames' = Append(extracted_frames,
                  [filepath |-> filename,
                   timestamp |-> <<frame_count * RateDen, video.fps>>,
                   frame_number |-> frame_count])
    /\ extracted_count' = extracted_count + 1
    /\ frame_count' = frame_count + 1
    /\ UNCHANGED <<video, interval_seconds, s_pc, frame_interval>>
    /\ UNCHANGED <<serviceVars, stepVars, runnerVars, reportVars>>

\* Lines 47-52, 69: a frame is read and skipped.
ReadAndSkip ==
    /\ s_pc = "loop"
    /\ frame_count < video.stream
    /\ frame_interval # 0
    /\ ~IsSampled(frame_count, frame_interval)
    /\ frame_count' = frame_count + 1
    /\ UNCHANGED <<video, interval_seconds, s_pc, frame_interval,
                   extracted_count, extracted_frames, out_dir>>
    /\ UNCHANGED <<serviceVars, stepVars, runnerVars, reportVars>>

NextSampler ==
    \/ OpenFails
    \/ OpenZeroFps
    \/ OpenVideo
    \/ ReadEnds
    \/ ReadZeroStride
    \/ ReadAndExtract
    \/ ReadAndSkip

SpecSampler == InitSampler /\ [][NextSampler]_vars

-----------------------------------------------------------------------------
(* simspec_test_harness.py: MockLeapService *)

\* time.time() differences: the wall clock is not monotonic, so an elapsed time
\* is any of a few values around the simulated delay, in milliseconds.
LoadTimesMs == {2500, 2503}
InferenceTimesMs == {1000, 1400}

\* The text analyze_image returns when the service is not initialized (line 42).
Sentinel == "Error: LEAP SDK not initialized"

\* The fallback text of _generate_mock_response (line 82).
Unable == "Unable to analyze this aspect of the component."

\* The dict responses of _generate_mock_response (lines 58-68).
responses ==
    [overall |-> "This image shows a large industrial pipe flange assembly with multiple bolt connections. The system appears to be part of a pressure vessel or piping network with metallic components.",
     component |-> "The main component is a flanged pipe connection with approximately 8-12 bolts arranged in a circular pattern. The flange appears to be a raised-face type with gasket sealing surface.",
     connections |-> "The connection points consist of high-strength bolts with hex nuts, likely Grade 8 or similar. The bolts appear to be in tension loading configuration with visible thread engagement.",
     condition |-> "Surface shows signs of light corrosion and weathering typical of outdoor industrial environments. Some bolt heads show minor rust staining but no significant structural deterioration is visible.",
     summary |-> "This flanged connection appears to be functioning within normal parameters. The slight surface corrosion suggests routine maintenance inspection is recommended, particularly for gasket integrity and bolt torque verification."]

\* MockLeapService._generate_mock_response (lines 70-82); image_path is not read.
generate_mock_response(prompt, image_path) ==
    LET p == Lower(prompt)
    IN  IF Contains("overall", p) \/ Contains("system", p) THEN responses.overall
        ELSE IF Contains("component", p) \/ Contains("mechanical", p) THEN responses.component
        ELSE IF Contains("connection", p) \/ Contains("bolts", p) THEN responses.connections
        ELSE IF Contains("surface", p) \/ Contains("condition", p) THEN responses.condition
        ELSE IF Contains("summary", p) \/ Contains("function", p) THEN responses.summary
        ELSE Unable

\* The list prompts of run_progressive_analysis_test (lines 143-149).
prompts ==
    <<"Describe the overall system or machine in this image.",
      "Identify the main mechanical component in the center of the image.",
      "Focus on the connection points. Are there bolts, welds, or clamps?",
      "Describe the surface condition. Is there evidence of wear, corrosion, or damage?",
      "Provide a summary of the component's likely function and condition.">>

\* Prompts a caller of the free-standing service passes: the runner's five,
\* one that matches no keyword, and one in upper case.
PromptInputs == {prompts[k] : k \in 1..Len(prompts)} \cup {"What colour is it?", "SUMMARY PLEASE"}

\* TLC evaluates a definition without parameters once. The tables below hold
\* the results of the harness's pure functions on the texts the runner passes
\* them, so that its loop does not recompute them in every state (@@ makes the
\* table an explicit one); a text outside a table is computed on the spot.
EmptyTable == [x \in {} |-> x]

MockResponseTable == [p \in PromptInputs |-> generate_mock_response(p, "")] @@ EmptyTable

\* Line 52: self._generate_mock_response(prompt, image_path).
MockResponseFor(prompt, image_path) ==
    IF prompt \in DOMAIN MockResponseTable THEN MockResponseTable[prompt]
    ELSE generate_mock_response(prompt, image_path)

\* analyze_image without its guard on self.initialized.
analyze_image_unguarded(self_initialized, image_path, prompt, elapsed_ms) ==
    <<MockResponseFor(prompt, image_path), elapsed_ms>>

\* MockLeapService.analyze_image (lines 41-54): the returned pair, given the
\* object's flag and the elapsed time the clock measures.
analyze_image(self_initialized, image_path, prompt, elapsed_ms) ==
    IF ~self_initialized THEN <<Sentinel, 0>>
    ELSE <<MockResponseFor(prompt, image_path), elapsed_ms>>

\* The state a free-standing MockLeapService starts in.
InitService ==
    /\ IdleService
    /\ IdleSampler /\ IdleStep /\ IdleRunner /\ IdleReport

\* MockLeapService.initialize (lines 24-34).
initialize ==
    /\ init_done < MaxInits
    /\ \E t \in LoadTimesMs : model_load_time' = t
    /\ initialized' = TRUE
    /\ init_done' = init_done + 1
    /\ UNCHANGED <<ret, analyze_calls>>
    /\ UNCHANGED <<samplerVars, stepVars, runnerVars, reportVars>>

\* A call of MockLeapService.analyze_image (lines 36-54).
CallAnalyzeImage ==
    /\ analyze_calls < MaxCalls
    /\ \E prompt \in PromptInputs, elapsed \in InferenceTimesMs :
           ret' = analyze_image(initialized, "frame.jpg", prompt, elapsed)
    /\ analyze_calls' = analyze_calls + 1
    /\ UNCHANGED <<initialized, model_load_time, init_done>>
    /\ UNCHANGED <<samplerVars, stepVars, runnerVars, reportVars>>

NextService ==
    \/ initialize
    \/ CallAnalyzeImage

SpecService == InitService /\ [][NextService]_vars

-----------------------------------------------------------------------------
(* simspec_test_harness.py: ContextInterpreter and QuestionGenerator *)

Fatigue == "Fatigue Analysis, Stress Concentration"
Crack == "Crack Propagation, Residual Stress Analysis"
RemainingLife == "Remaining Life Assessment, Material Degradation Study"
FluidDynamics == "Fluid Dynamics, Pressure Drop Analysis"
General == "General Structural Analysis"

\* get_analysis_type with the weld test ahead of the fastener test.
get_analysis_type_weld_first(ai_response) ==
    LET lowercased_response == Lower(ai_response)
    IN  IF Contains("weld", lowercased_response) THEN Crack
        ELSE IF \E word \in {"fastener", "bolt", "screw"} : Contains(word, lowercased_response)
        THEN Fatigue
        ELSE IF \E word \in {"corrosion", "rust"} : Contains(word, lowercased_response)
        THEN RemainingLife
        ELSE IF \E word \in {"pipe", "flange"} : Contains(word, lowercased_response)
        THEN FluidDynamics
        ELSE General

\* ContextInterpreter.get_analysis_type (lines 88-100).
get_analysis_type(ai_response) ==
    LET lowercased_response == Lower(ai_response)
    IN  IF \E word \in {"fastener", "bolt", "screw"} : Contains(word, lowercased_response)
        THEN Fatigue
        ELSE IF Contains("weld", lowercased_response) THEN Crack
        ELSE IF \E word \in {"corrosion", "rust"} : Contains(word, lowercased_response)
        THEN RemainingLife
        ELSE IF \E word \in {"pipe", "flange"} : Contains(word, lowercased_response)
        THEN FluidDynamics
        ELSE General

\* QuestionGenerator.questions_map (lines 105-122), in insertion order.
questions_map ==
    << <<Fatigue,
         [question |-> "What is the primary loading condition for these fasteners?",
          options |-> <<"Static Tension", "Cyclic (Vibration)", "Shear", "Unknown">>]>>,
       <<Crack,
         [question |-> "What welding process was likely used?",
          options |-> <<"MIG/GMAW", "TIG/GTAW", "Stick/SMAW", "Unknown">>]>>,
       <<RemainingLife,
         [question |-> "What is the operational environment?",
          options |-> <<"Dry, Indoor", "Humid, Outdoor", "Marine/Salt-Spray", "Chemical Exposure">>]>>,
       <<FluidDynamics,
         [question |-> "What is the typical operating pressure?",
          options |-> <<"Low (< 50 psi)", "Medium (50-500 psi)", "High (> 500 psi)", "Unknown">>]>> >>

\* key.split(",")[0].strip() (line 128).
KeyPrefix(key) == Strip(Split(key, ",")[1])

\* generate_question with the containment test the wrong way round.
generate_question_reversed(type) ==
    LET hits == {k \in 1..Len(questions_map) : Contains(type, KeyPrefix(questions_map[k][1]))}
    IN  IF hits = {} THEN None
        ELSE questions_map[CHOOSE k \in hits : \A j \in hits : k <= j][2]

\* QuestionGenerator.generate_question (lines 125-130): the data of the first
\* entry whose key prefix occurs in the analysis type, None if there is none.
generate_question(type) ==
    LET hits == {k \in 1..Len(questions_map) : Contains(KeyPrefix(questions_map[k][1]), type)}
    IN  IF hits = {} THEN None
        ELSE questions_map[CHOOSE k \in hits : \A j \in hits : k <= j][2]

\* The texts analyze_image can return.
ServiceTexts == {MockResponseTable[p] : p \in PromptInputs} \cup {Sentinel}

AnalysisTypeTable == [text \in ServiceTexts |-> get_analysis_type(text)] @@ EmptyTable

\* Line 183: ContextInterpreter.get_analysis_type(response).
AnalysisTypeFor(text) ==
    IF text \in DOMAIN AnalysisTypeTable THEN AnalysisTypeTable[text]
    ELSE get_analysis_type(text)

QuestionTable ==
    [type \in {Fatigue, Crack, RemainingLife, FluidDynamics, General} |-> generate_question(type)]
    @@ EmptyTable

\* Line 184: QuestionGenerator.generate_question(analysis_type).
QuestionFor(type) ==
    IF type \in DOMAIN QuestionTable THEN QuestionTable[type]
    ELSE generate_question(type)

\* The dict analysis_result of the runner's loop body (lines 186-193).
AnalysisRecord(i, prompt, text, inference_time, type, question) ==
    [step |-> i + 1,
     prompt |-> prompt,
     response |-> text,
     inference_time_ms |-> inference_time,
     analysis_type |-> type,
     generated_question |-> question]

\* Lines 182-193 of the runner's loop body for enumerate index i, given what
\* analyze_image returned.
AnalysisStep(i, prompt, returned) ==
    LET type == AnalysisTypeFor(returned[1])
    IN  AnalysisRecord(i, prompt, returned[1], returned[2], type, QuestionFor(type))

\* Pieces response texts are put together from: every classifier keyword, in
\* mixed case, split keywords, and text without a keyword.
Fragments == {"bolt", "Weld", "RUST", "pipe", "Flange", "screw", "Fastener",
              "corrosion", "bo", "lts ", "no keyword "}

RECURSIVE Concat(_)
Concat(seq) == IF seq = <<>> THEN "" ELSE Head(seq) \o Concat(Tail(seq))

\* The response texts the loop body is run on: up to MaxFragments fragments in
\* a row, and every text the mock service can return.
ResponseTexts ==
    {Concat(seq) : seq \in UNION {[1..n -> Fragments] : n \in 0..MaxFragments}}
    \cup {responses.overall, responses.component, responses.connections,
          responses.condition, responses.summary, Unable, Sentinel}

\* The loop body of the runner entered with a response text.
InitStep ==
    /\ c_pc = "start"
    /\ response \in ResponseTexts
    /\ analysis_type = ""
    /\ question_data = None
    /\ analysis_result = None
    /\ IdleSampler /\ IdleService /\ IdleRunner /\ IdleReport

\* Line 183.
StepClassify ==
    /\ c_pc = "start"
    /\ analysis_type' = AnalysisTypeFor(response)
    /\ c_pc' = "classified"
    /\ UNCHANGED <<response, question_data, analysis_result>>
    /\ UNCHANGED <<samplerVars, serviceVars, runnerVars, reportVars>>

\* Lines 184-193.
StepQuestion ==
    /\ c_pc = "classified"
    /\ question_data' = QuestionFor(analysis_type)
    /\ \E elapsed \in InferenceTimesMs :
           analysis_result' = AnalysisRecord(0, prompts[1], response, elapsed,
                                             analysis_type, question_data')
    /\ c_pc' = "done"
    /\ UNCHANGED <<response, analysis_type>>
    /\ UNCHANGED <<samplerVars, serviceVars, runnerVars, reportVars>>

NextStep ==
    \/ StepClassify
    \/ StepQuestion

SpecStep == InitStep /\ [][NextStep]_vars

-----------------------------------------------------------------------------
(* simspec_test_harness.py: run_progressive_analysis_test *)

\* The names the directory extracted_frames may hold: frames as the sampler
\* names them (1 frame per second, sampled every 3 seconds), a file that is no
\* .jpg, and a .jpg that is no sampled frame.
FrameNames == {FrameFilename(k, 3 * k, RateDen) : k \in 0..(MaxDirFiles - 1)}
DirUniverse == FrameNames \cup {"notes.txt", "snap.jpg"}

\* os.listdir: the names of a directory in any order.
ListDir(files) ==
    {listing \in [1..Cardinality(files) -> files] :
        \A i, j \in 1..Cardinality(files) : i # j => listing[i] # listing[j]}

IsJpg(f) == EndsWith(f, ".jpg")

\* Line 157 without sorted().
ListFramesUnsorted(listing) == SelectSeq(listing, IsJpg)

\* Line 157: sorted([f for f in os.listdir(frames_dir) if f.endswith('.jpg')]).
ListFrames(listing) == sorted(SelectSeq(listing, IsJpg))

\* Line 167: frame_file.split('_t')[1] raises IndexError without a second piece.
HasTimestamp(frame_file) == Len(Split(frame_file, "_t")) >= 2

\* Line 167: frame_file.split('_t')[1].split('s.jpg')[0] + 's'.
TimestampLabel(frame_file) == Split(Split(frame_file, "_t")[2], "s.jpg")[1] \o "s"

\* The dict written by json.dump (lines 209-214).
RunReport(load_time, files, rs) ==
    [model_load_time_s |-> load_time,
     total_frames_analyzed |-> Len(files),
     prompts_per_frame |-> Len(prompts),
     results |-> rs]

\* json.dump then json.load: None is written as null and read back as None;
\* str, numbers and lists come back as they were.
JsonNull == [json_null |-> TRUE]
json_dump_question(q) == IF q = None THEN JsonNull ELSE q
json_load_question(q) == IF q = JsonNull THEN None ELSE q
json_dump(data) ==
    [data EXCEPT !.results = [f \in DOMAIN @ |->
        [@[f] EXCEPT !.analyses = [k \in DOMAIN @ |->
            [@[k] EXCEPT !.generated_question = json_dump_question(@)]]]]]
json_load(text) ==
    [text EXCEPT !.results = [f \in DOMAIN @ |->
        [@[f] EXCEPT !.analyses = [k \in DOMAIN @ |->
            [@[k] EXCEPT !.generated_question = json_load_question(@)]]]]]

\* What an earlier run over one frame left in simspec_test_results.json.
EarlierReport ==
    RunReport(2500, <<FrameFilename(0, 0, RateDen)>>,
        << [frame |-> FrameFilename(0, 0, RateDen),
            timestamp |-> TimestampLabel(FrameFilename(0, 0, RateDen)),
            analyses |-> [k \in 1..Len(prompts) |->
                AnalysisStep(k - 1, prompts[k],
                    analyze_image(TRUE, FrameFilename(0, 0, RateDen), prompts[k], 1400))]] >>)

EarlierFile == [exists |-> TRUE, writer |-> "earlier", text |-> json_dump(EarlierReport)]

\* The state run_progressive_analysis_test starts in: any directory content,
\* with or without a results file of an earlier run.
InitRunner ==
    /\ frames_dir \in [exists : BOOLEAN, files : SUBSET DirUniverse]
    /\ ~frames_dir.exists => frames_dir.files = {}
    /\ Cardinality(frames_dir.files) <= MaxDirFiles
    /\ results_file \in {NoFile, EarlierFile}
    /\ r_pc = "start"
    /\ frame_files = <<>>
    /\ frame_idx = 0
    /\ frame_results = None
    /\ results = <<>>
    /\ IdleService
    /\ g_pc = "start"
    /\ report = None
    /\ IdleSampler /\ IdleStep

\* Lines 139-140: the service is constructed and initialized.
RunnerInitialize ==
    /\ \E t \in LoadTimesMs : model_load_time' = t
    /\ initialized' = TRUE
    /\ init_done' = init_done + 1

\* Lines 135-155: the frames directory does not exist: print and return.
RunnerNoDirectory ==
    /\ r_pc = "start"
    /\ RunnerInitialize
    /\ ~frames_dir.exists
    /\ r_pc' = "aborted"
    /\ UNCHANGED <<ret, analyze_calls>>
    /\ UNCHANGED <<frames_dir, results_file, frame_files, frame_idx, frame_results, results>>
    /\ UNCHANGED <<samplerVars, stepVars, reportVars>>

\* The empty-directory branch without its return: the run goes on with no frame.
RunnerNoFramesFallsThrough ==
    /\ r_pc = "start"
    /\ RunnerInitialize
    /\ frames_dir.exists
    /\ \E listing \in ListDir(frames_dir.files) :
           /\ ListFrames(listing) = <<>>
           /\ frame_files' = ListFrames(listing)
    /\ results' = <<>>
    /\ frame_idx' = 1
    /\ r_pc' = "frame"
    /\ UNCHANGED <<ret, analyze_calls>>
    /\ UNCHANGED <<frames_dir, results_file, frame_results>>
    /\ UNCHANGED <<samplerVars, stepVars, reportVars>>

\* Lines 135-160: the directory holds no .jpg: print and return.
RunnerNoFrames ==
    /\ r_pc = "start"
    /\ RunnerInitialize
    /\ frames_dir.exists
    /\ \E listing \in ListDir(frames_dir.files) :
           /\ ListFrames(listing) = <<>>
           /\ frame_files' = ListFrames(listing)
    /\ r_pc' = "aborted"
    /\ UNCHANGED <<ret, analyze_calls>>
    /\ UNCHANGED <<frames_dir, results_file, frame_idx, frame_results, results>>
    /\ UNCHANGED <<samplerVars, stepVars, reportVars>>

\* Lines 135-162: the frame files are listed and sorted, results = [].
RunnerListFrames ==
    /\ r_pc = "start"
    /\ RunnerInitialize
    /\ frames_dir.exists
    /\ \E listing \in ListDir(frames_dir.files) :
           /\ ListFrames(listing) # <<>>
           /\ frame_files' = ListFrames(listing)
    /\ results' = <<>>
    /\ frame_idx' = 1
    /\ r_pc' = "frame"
    /\ UNCHANGED <<ret, analyze_calls>>
    /\ UNCHANGED <<frames_dir, results_file, frame_results>>
    /\ UNCHANGED <<samplerVars, stepVars, reportVars>>

\* Lines 165-167: the next frame file has no '_t' in its name: IndexError.
FrameNameRaises ==
    /\ r_pc = "frame"
    /\ frame_idx <= Len(frame_files)
    /\ ~HasTimestamp(frame_files[frame_idx])
    /\ r_pc' = "raised"
    /\ UNCHANGED <<frames_dir, results_file, frame_files, frame_idx, frame_results, results>>
    /\ UNCHANGED <<samplerVars, serviceVars, stepVars, reportVars>>

\* Lines 165-176: the next frame file: its timestamp label and empty analyses.
FrameBegin ==
    /\ r_pc = "frame"
    /\ frame_idx <= Len(frame_files)
    /\ HasTimestamp(frame_files[frame_idx])
    /\ frame_results' = [frame |-> frame_files[frame_idx],
                         timestamp |-> TimestampLabel(frame_files[frame_idx]),
                         analyses |-> <<>>]
    /\ r_pc' = "prompts"
    /\ UNCHANGED <<frames_dir, results_file, frame_files, frame_idx, results>>
    /\ UNCHANGED <<samplerVars, serviceVars, stepVars, reportVars>>

\* Lines 179-195: one pass of the loop over prompts.
PromptStep ==
    /\ r_pc = "prompts"
    /\ Len(frame_results.analyses) < Len(prompts)
    /\ LET i == Len(frame_results.analyses)
       IN  \E elapsed \in InferenceTimesMs :
               /\ ret' = analyze_image(initialized, frame_results.frame, prompts[i + 1], elapsed)
               /\ frame_results' = [frame_results EXCEPT !.analyses =
                      Append(@, AnalysisStep(i, prompts[i + 1], ret'))]
    /\ analyze_calls' = analyze_calls + 1
    /\ UNCHANGED <<initialized, model_load_time, init_done>>
    /\ UNCHANGED <<frames_dir, results_file, r_pc, frame_files, frame_idx, results>>
    /\ UNCHANGED <<samplerVars, stepVars, reportVars>>

\* Line 204: the loop over prompts is over: results.append(frame_results).
FrameEnd ==
    /\ r_pc = "prompts"
    /\ Len(frame_results.analyses) = Len(prompts)
    /\ results' = Append(results, frame_results)
    /\ frame_idx' = frame_idx + 1
    /\ r_pc' = "frame"
    /\ UNCHANGED <<frames_dir, results_file, frame_files, frame_results>>
    /\ UNCHANGED <<samplerVars, serviceVars, stepVars, reportVars>>

\* Lines 206-223: the loop over frames is over: the results file is written.
WriteResults ==
    /\ r_pc = "frame"
    /\ frame_idx > Len(frame_files)
    /\ results_file' = [exists |-> TRUE, writer |-> "this_run",
                        text |-> json_dump(RunReport(model_load_time, frame_files, results))]
    /\ r_pc' = "returned"
    /\ UNCHANGED <<frames_dir, frame_files, frame_idx, frame_results, results>>
    /\ UNCHANGED <<samplerVars, serviceVars, stepVars, reportVars>>

-----------------------------------------------------------------------------
(* generate_report.py: analyze_test_results *)

\* mobile_multiplier = 2.5 (line 60), as MobileMultiplierNum / MobileMultiplierDen.
MobileMultiplierNum == 5
MobileMultiplierDen == 2
\* The throttle target both tests compare with (lines 66 and 126).
ThrottleTargetMs == 3000
\* The variation a frame is flagged above (line 155).
VariationLimitMs == 200

\* prompt_names (lines 87-93).
prompt_names == <<"Overall System", "Main Component", "Connection Points",
                  "Surface Condition", "Function Summary">>

RECURSIVE SumSeq(_)
SumSeq(seq) == IF seq = <<>> THEN 0 ELSE Head(seq) + SumSeq(Tail(seq))

RECURSIVE FlattenSeq(_)
FlattenSeq(seqs) == IF seqs = <<>> THEN <<>> ELSE Head(seqs) \o FlattenSeq(Tail(seqs))

\* sorted(seq) for a list of numbers.
RECURSIVE InsertNumber(_, _)
InsertNumber(x, seq) ==
    IF seq = <<>> THEN <<x>>
    ELSE IF x < Head(seq) THEN <<x>> \o seq
    ELSE <<Head(seq)>> \o InsertNumber(x, Tail(seq))
RECURSIVE SortNumbers(_)
SortNumbers(seq) == IF seq = <<>> THEN <<>> ELSE InsertNumber(Head(seq), SortNumbers(Tail(seq)))

\* statistics.mean, as the fraction <<numerator, denominator>>.
Mean(seq) == <<SumSeq(seq), Len(seq)>>

\* statistics.median, as a fraction.
Median(seq) ==
    LET srt == SortNumbers(seq)
        n == Len(seq)
    IN  IF n % 2 = 1 THEN <<srt[(n + 1) \div 2], 1>>
        ELSE <<srt[n \div 2] + srt[n \div 2 + 1], 2>>

Min(seq) == CHOOSE x \in {seq[k] : k \in DOMAIN seq} : \A k \in DOMAIN seq : x <= seq[k]
Max(seq) == CHOOSE x \in {seq[k] : k \in DOMAIN seq} : \A k \in DOMAIN seq : x >= seq[k]

\* frame_times of one frame (lines 46, 149, 154).
FrameTimes(frame_result) ==
    [k \in DOMAIN frame_result.analyses |-> frame_result.analyses[k].inference_time_ms]

\* Line 61: statistics.mean(all_inference_times) * mobile_multiplier, as a fraction.
ProjectedMobileAvg(all_inference_times) ==
    <<SumSeq(all_inference_times) * MobileMultiplierNum,
      Len(all_inference_times) * MobileMultiplierDen>>

\* The verdict test with <= for <.
MeetsThrottleTargetInclusive(projected) == projected[1] <= ThrottleTargetMs * projected[2]

\* Line 66: projected_mobile_avg < 3000.
MeetsThrottleTarget(projected) == projected[1] < ThrottleTargetMs * projected[2]

\* Lines 126-132: which recommendation block is printed.
Recommendation(projected) ==
    IF projected[1] > ThrottleTargetMs * projected[2]
    THEN "Performance Optimization Needed"
    ELSE "Performance looks good for mobile deployment"

\* Lines 28-156: everything analyze_test_results prints for the loaded data
\* (the standard deviation, an irrational number, is left out).
AnalyzeData(data) ==
    LET total_frames == data.total_frames_analyzed
        prompts_per_frame == data.prompts_per_frame
        total_analyses == total_frames * prompts_per_frame
        all_inference_times == FlattenSeq([f \in DOMAIN data.results |-> FrameTimes(data.results[f])])
        all_analyses == FlattenSeq([f \in DOMAIN data.results |-> data.results[f].analyses])
        projected_mobile_avg == ProjectedMobileAvg(all_inference_times)
        types == {all_analyses[k].analysis_type : k \in DOMAIN all_analyses}
        asked == {k \in DOMAIN all_analyses : all_analyses[k].generated_question # None}
    IN  [model_load_time |-> data.model_load_time_s,
         total_frames |-> total_frames,
         prompts_per_frame |-> prompts_per_frame,
         total_analyses |-> total_analyses,
         pooled |-> Len(all_inference_times),
         mean |-> Mean(all_inference_times),
         median |-> Median(all_inference_times),
         min |-> Min(all_inference_times),
         max |-> Max(all_inference_times),
         projected_mobile_avg |-> projected_mobile_avg,
         meets_target |-> MeetsThrottleTarget(projected_mobile_avg),
         distribution |-> [t \in types |->
             <<Cardinality({k \in DOMAIN all_analyses : all_analyses[k].analysis_type = t}),
               total_analyses>>],
         steps |-> [i \in 1..prompts_per_frame |->
             [name |-> prompt_names[i],
              avg_time |-> Mean([f \in DOMAIN data.results |->
                                    data.results[f].analyses[i].inference_time_ms])]],
         questions_generated |-> Cardinality(asked),
         unique_questions |-> Cardinality({all_analyses[k].generated_question.question : k \in asked}),
         recommendation |-> Recommendation(projected_mobile_avg),
         frames |-> [f \in DOMAIN data.results |->
             [frame |-> data.results[f].frame,
              timestamp |-> data.results[f].timestamp,
              avg |-> Mean(FrameTimes(data.results[f])),
              high_variation |-> Max(FrameTimes(data.results[f])) - Min(FrameTimes(data.results[f]))
                                     > VariationLimitMs]]]

\* The runner's call is over, one way or another.
RunnerOver == r_pc \in {"returned", "aborted", "raised"}

\* Lines 15-20: simspec_test_results.json is not there: print and return.
ReportNoFile ==
    /\ RunnerOver
    /\ g_pc = "start"
    /\ ~results_file.exists
    /\ g_pc' = "aborted"
    /\ UNCHANGED report
    /\ UNCHANGED <<samplerVars, serviceVars, stepVars, runnerVars>>

\* Lines 15-159: the file is loaded and the report printed.
ReportAnalyze ==
    /\ RunnerOver
    /\ g_pc = "start"
    /\ results_file.exists
    /\ report' = AnalyzeData(json_load(results_file.text))
    /\ g_pc' = "done"
    /\ UNCHANGED <<samplerVars, serviceVars, stepVars, runnerVars>>

\* The runner stage, then the report stage on the file it left.
NextRunner ==
    \/ RunnerNoDirectory
    \/ RunnerNoFrames
    \/ RunnerListFrames
    \/ FrameNameRaises
    \/ FrameBegin
    \/ PromptStep
    \/ FrameEnd
    \/ WriteResults
    \/ ReportNoFile
    \/ ReportAnalyze

SpecRunner == InitRunner /\ [][NextRunner]_vars

-----------------------------------------------------------------------------
(* The frame sampler's properties *)

\* C1: for every frame rate F and interval I the stride computed by
\* extract_frames_from_video equals round(F x I) and is at least 1, so that the
\* test "the frame counter is a multiple of the stride" is always defined.
C1_StrideIsRoundedAndPositive ==
    s_pc = "loop" =>
        /\ frame_interval = RoundHalfEven(video.fps * interval_seconds, RateDen * RateDen)
        /\ frame_interval >= 1

\* C2 as stated: a video that opens and yields `stream` decoded frames has
\* exactly floor(stream / stride) frames written, and as many manifest records.
C2_FloorCount ==
    (s_pc = "returned" /\ video.opened /\ frame_interval >= 1) =>
        /\ extracted_count = video.stream \div frame_interval
        /\ Len(extracted_frames) = extracted_count

\* C2, amended: when the call returns for a video that opened, every decoded
\* frame has been read, one frame was written for each counter value 0, stride,
\* 2*stride, ... below the number of decoded frames, which makes
\* ceil(stream / stride) of them (none for an empty stream), and the manifest
\* and the output directory hold exactly these.
C2_CeilingCount ==
    (s_pc = "returned" /\ video.opened) =>
        /\ frame_count = video.stream
        /\ extracted_count =
               IF video.stream = 0 THEN 0 ELSE (video.stream - 1) \div frame_interval + 1
        /\ Len(extracted_frames) = extracted_count
        /\ Cardinality(out_dir.files) = extracted_count
        /\ \A k \in 1..Len(extracted_frames) :
               extracted_frames[k].frame_number = (k - 1) * frame_interval
        /\ \A n \in 0..(video.stream - 1) :
               (n % frame_interval = 0) =>
                   \E k \in 1..Len(extracted_frames) : extracted_frames[k].frame_number = n

\* A call has returned with more frames written than floor(stream / stride).
C2_Witness ==
    /\ s_pc = "returned"
    /\ video.opened
    /\ frame_interval >= 2
    /\ video.stream % frame_interval # 0
    /\ extracted_count = video.stream \div frame_interval + 1
    /\ extracted_count >= 2

-----------------------------------------------------------------------------
(* The classifier's and the question generator's properties *)

\* The word occurs in the text, letter case ignored.
Mentions(word, text) ==
    \E i \in 1..(Len(text) - Len(word) + 1) :
        \A j \in 1..Len(word) : LowerChar(CharAt(text, i + j - 1)) = CharAt(word, j)

MentionsFastener(text) == Mentions("fastener", text) \/ Mentions("bolt", text) \/ Mentions("screw", text)
MentionsWeld(text) == Mentions("weld", text)
MentionsCorrosion(text) == Mentions("corrosion", text) \/ Mentions("rust", text)
MentionsPipe(text) == Mentions("pipe", text) \/ Mentions("flange", text)

\* C3: get_analysis_type maps every response text to one of the five category
\* strings, the first in the order fastener/bolt/screw, weld, corrosion/rust,
\* pipe/flange whose keyword occurs in the text (letter case ignored), the
\* default if none does; a text with both "bolt" and "weld" is a Fatigue one.
C3_ClassifierPriority ==
    c_pc \in {"classified", "done"} =>
        /\ analysis_type \in {Fatigue, Crack, RemainingLife, FluidDynamics, General}
        /\ MentionsFastener(response) => analysis_type = Fatigue
        /\ (~MentionsFastener(response) /\ MentionsWeld(response)) => analysis_type = Crack
        /\ (~MentionsFastener(response) /\ ~MentionsWeld(response) /\ MentionsCorrosion(response))
               => analysis_type = RemainingLife
        /\ (~MentionsFastener(response) /\ ~MentionsWeld(response) /\ ~MentionsCorrosion(response)
                /\ MentionsPipe(response)) => analysis_type = FluidDynamics
        /\ (~MentionsFastener(response) /\ ~MentionsWeld(response) /\ ~MentionsCorrosion(response)
                /\ ~MentionsPipe(response)) => analysis_type = General

\* A text with both "bolt" and "weld" has been classified.
C3_Witness ==
    /\ c_pc = "classified"
    /\ Mentions("bolt", response)
    /\ Mentions("weld", response)
    /\ analysis_type = Fatigue

\* C4: the AnalysisStep assembled for a response has a generated question
\* exactly when its category is one of the four keys of the question table,
\* and then it is the question and options stored under that very category;
\* the default category has none.
C4_QuestionIffCategory ==
    c_pc = "done" =>
        LET type == analysis_result.analysis_type
            q == analysis_result.generated_question
        IN  /\ q = question_data
            /\ type = analysis_type
            /\ (q # None) <=> (type \in {Fatigue, Crack, RemainingLife, FluidDynamics})
            /\ (type = General) => q = None
            /\ \A k \in 1..Len(questions_map) :
                   (type = questions_map[k][1]) => q = questions_map[k][2]

\* A step of the last category of the table has got that category's question.
C4_Witness ==
    /\ c_pc = "done"
    /\ analysis_result.analysis_type = FluidDynamics
    /\ analysis_result.generated_question.question = "What is the typical operating pressure?"
    /\ Len(analysis_result.generated_question.options) = 4

-----------------------------------------------------------------------------
(* The mock service's properties *)

\* C8: an analyze_image call returns the sentinel text with elapsed time 0 if
\* and only if no initialize call has completed before it (so none does once
\* initialize has completed), and it changes neither the initialized flag nor
\* the recorded load time.
C8_SentinelIffUninitialized ==
    [][(analyze_calls' = analyze_calls + 1) =>
          /\ (ret' = <<Sentinel, 0>>) <=> (init_done = 0)
          /\ (ret'[1] = Sentinel) <=> (init_done = 0)
          /\ initialized' = initialized
          /\ model_load_time' = model_load_time]_vars

\* A call made before any initialize has returned the sentinel.
C8_Witness ==
    /\ init_done = 0
    /\ analyze_calls >= 1
    /\ ret = <<Sentinel, 0>>

-----------------------------------------------------------------------------
(* The runner's and the report generator's properties *)

\* The .jpg names of the frames directory.
JpgFiles == {f \in frames_dir.files : IsJpg(f)}

\* The analyses of a written report, frame after frame.
PooledAnalyses(data) == FlattenSeq([f \in DOMAIN data.results |-> data.results[f].analyses])

\* C5: the report this run wrote has prompts_per_frame = 5, as many results as
\* total_frames_analyzed, one per .jpg file in ascending order of file name,
\* and in every frame exactly five analyses, the k-th with step k and the k-th
\* prompt; so it has total_frames_analyzed x prompts_per_frame analyses in all,
\* which is the total the report generator prints and pools.
C5_ReportShape ==
    results_file.writer = "this_run" =>
        LET data == json_load(results_file.text)
        IN  /\ data.prompts_per_frame = 5
            /\ data.total_frames_analyzed = Len(data.results)
            /\ {data.results[f].frame : f \in DOMAIN data.results} = JpgFiles
            /\ \A f, g \in DOMAIN data.results :
                   f < g => StrLess(data.results[f].frame, data.results[g].frame)
            /\ \A f \in DOMAIN data.results :
                   /\ Len(data.results[f].analyses) = data.prompts_per_frame
                   /\ \A k \in 1..data.prompts_per_frame :
                          /\ data.results[f].analyses[k].step = k
                          /\ data.results[f].analyses[k].prompt = prompts[k]
            /\ Len(PooledAnalyses(data)) = data.total_frames_analyzed * data.prompts_per_frame
            /\ g_pc = "done" =>
                   /\ report.total_analyses = Len(PooledAnalyses(data))
                   /\ report.pooled = report.total_analyses

\* A run over two frames has written its report and the report generator has read it.
C5_Witness ==
    /\ results_file.writer = "this_run"
    /\ json_load(results_file.text).total_frames_analyzed = 2
    /\ g_pc = "done"
    /\ report.total_analyses = 10
    /\ report.pooled = 10

\* The sum of the inference times of a report's analyses.
PooledTimeSum(data) ==
    LET all == PooledAnalyses(data)
    IN  SumSeq([k \in DOMAIN all |-> all[k].inference_time_ms])

\* C6: the projected mobile average printed for a results file is its pooled
\* mean inference time M multiplied by 2.5, and the verdict is YES exactly when
\* M x 2.5 < 3000 (with M = total / n: when 5 x total < 6000 x n).
C6_ProjectionAndVerdict ==
    g_pc = "done" =>
        LET data == json_load(results_file.text)
            total == PooledTimeSum(data)
            n == Len(PooledAnalyses(data))
        IN  /\ n > 0
            /\ report.projected_mobile_avg[2] > 0
            /\ report.projected_mobile_avg[1] * (2 * n) = (5 * total) * report.projected_mobile_avg[2]
            /\ report.meets_target <=> (5 * total < 6000 * n)

\* A report with a projected mobile average of exactly 3000 ms, a fail.
C6_Witness ==
    /\ g_pc = "done"
    /\ report.projected_mobile_avg[1] = 3000 * report.projected_mobile_avg[2]
    /\ ~report.meets_target

\* C7: the "Performance Optimization Needed" block is printed exactly when the
\* throttle-target verdict is a fail, the "looks good" block exactly when it is
\* a pass.
C7_RecommendationFollowsVerdict ==
    g_pc = "done" =>
        /\ (report.recommendation = "Performance Optimization Needed") <=> ~report.meets_target
        /\ (report.recommendation = "Performance looks good for mobile deployment") <=> report.meets_target

\* C9: with the frames directory absent or holding no .jpg file the run aborts
\* with no analyze_image call made and the results file as it was; the results
\* file changes only in the step that ends the run, after every .jpg frame has
\* been run through all five prompts.
C9_AbortWritesNothing ==
    /\ [](/\ (r_pc # "start" /\ (~frames_dir.exists \/ JpgFiles = {})) =>
               (r_pc = "aborted" /\ analyze_calls = 0 /\ results_file.writer # "this_run")
          /\ r_pc = "aborted" =>
               (analyze_calls = 0 /\ results_file \in {NoFile, EarlierFile}
                /\ (~frames_dir.exists \/ JpgFiles = {}))
          /\ results_file.writer = "this_run" =>
               (/\ r_pc = "returned"
                /\ JpgFiles # {}
                /\ Len(results) = Cardinality(JpgFiles)
                /\ \A f \in DOMAIN results : Len(results[f].analyses) = Len(prompts)
                /\ analyze_calls = Cardinality(JpgFiles) * Len(prompts)))
    /\ [][(results_file' # results_file) =>
              (r_pc = "frame" /\ r_pc' = "returned" /\ Len(results) = Cardinality(JpgFiles))]_vars

\* A run has aborted on a directory without a .jpg, an earlier results file kept.
C9_Witness ==
    /\ r_pc = "aborted"
    /\ frames_dir.exists
    /\ frames_dir.files = {"notes.txt"}
    /\ results_file = EarlierFile
    /\ analyze_calls = 0

\* The canned responses in the order of the report's step labels.
ResponsesInStepOrder ==
    <<responses.overall, responses.component, responses.connections,
      responses.condition, responses.summary>>

\* C10: the k-th runner prompt gets the k-th canned response (system-level,
\* component, connection, condition, summary), so the five steps of a frame
\* carry five distinct responses.
C10_KthPromptKthResponse ==
    r_pc = "prompts" =>
        /\ \A k \in 1..Len(frame_results.analyses) :
               frame_results.analyses[k].response = ResponsesInStepOrder[k]
        /\ \A j, k \in 1..Len(frame_results.analyses) :
               j # k => frame_results.analyses[j].response # frame_results.analyses[k].response

====
